---- MODULE Spec2Model ----
(***************************************************************************)
(* The chat view-state controller (ChatInterface) and the API client       *)
(* (sendChatMessage) of the LangChain documentation assistant.             *)
(*                                                                         *)
(* Text that the code trims (the draft, the question, the answer) is a     *)
(* sequence of atoms: an atom is either a run of whitespace or a chunk of   *)
(* text that neither starts nor ends with whitespace; runs and chunks      *)
(* alternate, since two adjacent runs are one run and two adjacent chunks  *)
(* one chunk.  Text the code only passes along (error messages, details)   *)
(* is a TLA+ string.                                                       *)
(*                                                                         *)
(* Every event handler is an action that may be invoked in any state: the  *)
(* guards are those of the handlers themselves, and the disabled           *)
(* attributes of the textarea and of the send button are not relied on.    *)
(* React commits the state                                                 *)
(* updates of a discrete event before the next event is dispatched, so a   *)
(* handler always reads the state left by the previous one.  The code      *)
(* after the await of handleSubmit runs in one turn of the event loop.     *)
(***************************************************************************)
EXTENDS Integers, Sequences, FiniteSets, TLC

\* Bounds of the model: a submit is taken while the exchange it starts fits
\* in MaxMessages messages, the clock stops at MaxClock, and the user types
\* drafts of at most MaxInputLen atoms.
MaxMessages == 4
MaxClock == 1
MaxInputLen == 2

\* The largest document count a health response reports.
MaxDocs == 25

VARIABLES
    messages,       \* useState<Message[]>([])
    input,          \* useState('')
    isLoading,      \* useState(false)
    error,          \* useState<string | null>(null)
    serviceFilter,  \* useState<ServiceFilter>('all')
    isFullScreen,   \* useState(true)
    inflight,       \* the handleSubmit calls suspended at their await, each with
                    \* the body it posted and the state its closure was made in
    now,            \* the millisecond clock read by Date.now()
    last,           \* history: the last submit event or settlement
    health          \* a call of checkHealth: how its api.get settled and what
                    \* the call gave its caller

vars == <<messages, input, isLoading, error, serviceFilter, isFullScreen,
          inflight, now, last, health>>

ui == <<messages, input, isLoading, error, serviceFilter, isFullScreen>>

(***************************************************************************)
(* JavaScript values and texts                                             *)
(***************************************************************************)
JsNull == [type |-> "null", str |-> ""]
JsUndefined == [type |-> "undefined", str |-> ""]
JsString(s) == [type |-> "string", str |-> s]

\* ToBoolean: undefined, null and the empty string are falsy.
Truthy(v) == v.type = "string" /\ v.str # ""

\* a ?? b, which falls back only on undefined and null.
OrNullish(a, b) == IF a.type \in {"undefined", "null"} THEN b ELSE a

\* a || b
OrElse(a, b) == IF Truthy(a) THEN a ELSE b

Whitespace == {" "}
Words == {"q"}
Atoms == Whitespace \cup Words

RECURSIVE TrimStart(_)
TrimStart(s) ==
    IF s # <<>> /\ Head(s) \in Whitespace THEN TrimStart(Tail(s)) ELSE s

RECURSIVE TrimEnd(_)
TrimEnd(s) ==
    IF s # <<>> /\ s[Len(s)] \in Whitespace
    THEN TrimEnd(SubSeq(s, 1, Len(s) - 1))
    ELSE s

\* String.prototype.trim
Trim(s) == TrimEnd(TrimStart(s))

\* prev, kept whole.
SliceKeepAll(s) == s

\* prev.slice(1)
SliceDropFirst(s) == SubSeq(s, 2, Len(s))

\* prev.slice(0, -1)
SliceDropLast(s) == SubSeq(s, 1, Len(s) - 1)

RECURSIVE SeqsUpTo(_, _)
SeqsUpTo(S, n) ==
    IF n = 0 THEN {<<>>}
    ELSE LET shorter == SeqsUpTo(S, n - 1)
         IN  shorter \cup {Append(s, a) : s \in shorter, a \in S}

\* What the user can type into the textarea (e.target.value).
Drafts ==
    {s \in SeqsUpTo(Atoms, MaxInputLen) :
        \A i \in 1..(Len(s) - 1) : (s[i] \in Words) # (s[i + 1] \in Words)}

exampleQuestions ==
    << <<"How do I create a simple chain in LangChain?">>,
       <<"What are the key concepts in LangGraph?">>,
       <<"How do I set up tracing with LangSmith?">>,
       <<"Explain LCEL and give me an example">> >>

ServiceFilter == {"all", "langchain", "langgraph", "langsmith"}

(***************************************************************************)
(* API client: POST /api/chat                                              *)
(***************************************************************************)
Source1 ==
    [title |-> "Chains", url |-> "https://python.langchain.com/docs",
     content_preview |-> "A chain is", service |-> "langchain"]

\* The bodies of a successful response (ChatResponse).
ChatResponses ==
    {[answer |-> <<"Use the pipe operator.">>, sources |-> <<Source1>>,
      processing_time |-> 2],
     [answer |-> <<"I could not find that.">>, sources |-> <<>>,
      processing_time |-> 1]}

NoData == [answer |-> <<>>, sources |-> <<>>, processing_time |-> 0]

\* The detail field of an error body: absent, empty, or a message.
Details ==
    {JsUndefined, JsString(""), JsString("Vector store not ready")}

HttpOk(d) ==
    [kind |-> "ok", data |-> d, hasResponse |-> TRUE,
     detail |-> JsUndefined, message |-> ""]

\* An AxiosError: with a response (status outside 2xx) or without one
\* (network failure, or the 60 s timeout of the axios instance).
HttpAxiosError(r, d) ==
    [kind |-> "axios", data |-> NoData, hasResponse |-> r,
     detail |-> d, message |-> "timeout of 60000ms exceeded"]

\* An Error that is not an AxiosError.
HttpOtherError(m) ==
    [kind |-> "error", data |-> NoData, hasResponse |-> FALSE,
     detail |-> JsUndefined, message |-> m]

\* A thrown value that is not an Error.
HttpThrownValue ==
    [kind |-> "thrown", data |-> NoData, hasResponse |-> FALSE,
     detail |-> JsUndefined, message |-> ""]

NoOutcome ==
    [kind |-> "none", data |-> NoData, hasResponse |-> FALSE,
     detail |-> JsUndefined, message |-> ""]

\* How api.post can settle.
HttpOutcomes ==
    {HttpOk(d) : d \in ChatResponses}
    \cup {HttpAxiosError(TRUE, d) : d \in Details}
    \cup {HttpAxiosError(FALSE, JsUndefined)}
    \cup {HttpOtherError("Unexpected token"), HttpThrownValue}

\* error.response?.data?.detail
ResponseDetail(o) == IF o.hasResponse THEN o.detail ELSE JsUndefined

Resolved(d) == [settled |-> "resolved", value |-> d, isError |-> FALSE, message |-> ""]
Rejected(isErr, m) == [settled |-> "rejected", value |-> NoData, isError |-> isErr, message |-> m]

\* The body the client posts.
ChatRequest(question, filter) == [question |-> question, service_filter |-> filter]

\* sendChatMessage, given how its api.post settles.
sendChatMessage(o) ==
    CASE o.kind = "ok" -> Resolved(o.data)
      [] o.kind = "axios" ->
            Rejected(TRUE, OrElse(ResponseDetail(o), JsString("Failed to get response")).str)
      [] o.kind = "error" -> Rejected(TRUE, o.message)
      [] OTHER -> Rejected(FALSE, "")

(***************************************************************************)
(* API client: GET /api/health                                             *)
(***************************************************************************)
\* The bodies of a successful response (HealthResponse).
HealthResponses ==
    [status : {"healthy", "initializing"},
     vector_store_ready : BOOLEAN,
     indexed_documents : 0..MaxDocs]

NoHealth ==
    [status |-> "", vector_store_ready |-> FALSE, indexed_documents |-> 0]

HealthOk(d) ==
    [kind |-> "ok", data |-> d, hasResponse |-> TRUE,
     detail |-> JsUndefined, message |-> ""]

HealthFailure(kind, r, d, m) ==
    [kind |-> kind, data |-> NoHealth, hasResponse |-> r,
     detail |-> d, message |-> m]

\* How api.get can settle.
HealthOutcomes ==
    {HealthOk(d) : d \in HealthResponses}
    \cup {HealthFailure("axios", TRUE, d, "Request failed with status code 503") :
              d \in Details}
    \cup {HealthFailure("axios", FALSE, JsUndefined, "Network Error"),
          HealthFailure("error", FALSE, JsUndefined, "Unexpected token"),
          HealthFailure("thrown", FALSE, JsUndefined, "")}

HealthResolved(d) ==
    [settled |-> "resolved", value |-> d, isError |-> FALSE, message |-> ""]
HealthRejected(isErr, m) ==
    [settled |-> "rejected", value |-> NoHealth, isError |-> isErr, message |-> m]

\* checkHealth with the fallback of sendChatMessage.
checkHealthSurfacingDetail(o) ==
    CASE o.kind = "ok" -> HealthResolved(o.data)
      [] o.kind = "axios" ->
            HealthRejected(TRUE,
                OrElse(ResponseDetail(o), JsString("API is unavailable")).str)
      [] o.kind = "error" -> HealthRejected(TRUE, o.message)
      [] OTHER -> HealthRejected(FALSE, "")

\* checkHealth, given how its api.get settles.
checkHealth(o) ==
    CASE o.kind = "ok" -> HealthResolved(o.data)
      [] o.kind = "axios" -> HealthRejected(TRUE, "API is unavailable")
      [] o.kind = "error" -> HealthRejected(TRUE, o.message)
      [] OTHER -> HealthRejected(FALSE, "")

NoHealthOutcome == HealthFailure("none", FALSE, JsUndefined, "")

HealthCall(state, o, r) == [state |-> state, outcome |-> o, result |-> r]

(***************************************************************************)
(* ChatInterface                                                           *)
(***************************************************************************)
\* The state variables a render of the component closes over.
Closure == [messages |-> messages, input |-> input]

NoClosure == [messages |-> <<>>, input |-> <<>>]

\* An entry of the history; inError tells whether an error was recorded when
\* it happened.
Event(op, o, c) ==
    [op |-> op, outcome |-> o, pre |-> c, inError |-> Truthy(error)]

Init ==
    /\ messages = <<>>
    /\ input = <<>>
    /\ isLoading = FALSE
    /\ error = JsNull
    /\ serviceFilter = "all"
    /\ isFullScreen = TRUE
    /\ inflight = <<>>
    /\ now = 0
    /\ last = Event("init", NoOutcome, NoClosure)
    /\ health = HealthCall("idle", NoHealthOutcome, HealthRejected(FALSE, ""))

\* The user message with content: input instead of input.trim().
UserMessageUntrimmed ==
    [id |-> ToString(now), role |-> "user", content |-> input,
     timestamp |-> now]

UserMessage ==
    [id |-> ToString(now), role |-> "user", content |-> Trim(input),
     timestamp |-> now]

\* The assistant message without the returned sources.
AssistantMessageNoSources(response) ==
    [id |-> ToString(now + 1), role |-> "assistant",
     content |-> response.answer, sources |-> <<>>,
     processingTime |-> response.processing_time, timestamp |-> now]

AssistantMessage(response) ==
    [id |-> ToString(now + 1), role |-> "assistant",
     content |-> response.answer, sources |-> response.sources,
     processingTime |-> response.processing_time, timestamp |-> now]

\* if (!input || isLoading) return;
SubmitIgnoredUntrimmed == input = <<>> \/ isLoading

\* if (!input.trim()) return;
SubmitIgnoredEmptyOnly == Trim(input) = <<>>

\* if (!input.trim() || isLoading) return;
SubmitIgnored == Trim(input) = <<>> \/ isLoading

\* handleSubmit with setInput('') moved before the guard.
SubmitBodyClearsFirst ==
    IF SubmitIgnored
    THEN /\ input' = <<>>
         /\ UNCHANGED <<messages, isLoading, error, serviceFilter,
                        isFullScreen, inflight, now>>
         /\ last' = Event("ignored", NoOutcome, NoClosure)
    ELSE /\ Len(messages) + 2 <= MaxMessages
         /\ messages' = Append(messages, UserMessage)
         /\ input' = <<>>
         /\ isLoading' = TRUE
         /\ error' = JsNull
         /\ inflight' = Append(inflight,
                [request |-> ChatRequest(UserMessage.content, serviceFilter),
                 closure |-> Closure])
         /\ last' = Event("submit", NoOutcome, NoClosure)
         /\ UNCHANGED <<serviceFilter, isFullScreen, now>>

\* handleSubmit up to the await, without setError(null).
SubmitBodyKeepsError ==
    IF SubmitIgnored
    THEN /\ UNCHANGED <<ui, inflight, now>>
         /\ last' = Event("ignored", NoOutcome, NoClosure)
    ELSE /\ Len(messages) + 2 <= MaxMessages
         /\ messages' = Append(messages, UserMessage)
         /\ input' = <<>>
         /\ isLoading' = TRUE
         /\ error' = error
         /\ inflight' = Append(inflight,
                [request |-> ChatRequest(UserMessage.content, serviceFilter),
                 closure |-> Closure])
         /\ last' = Event("submit", NoOutcome, NoClosure)
         /\ UNCHANGED <<serviceFilter, isFullScreen, now>>

\* handleSubmit up to the await.
SubmitBody ==
    IF SubmitIgnored
    THEN /\ UNCHANGED <<ui, inflight, now>>
         /\ last' = Event("ignored", NoOutcome, NoClosure)
    ELSE /\ Len(messages) + 2 <= MaxMessages
         /\ messages' = Append(messages, UserMessage)
         /\ input' = <<>>
         /\ isLoading' = TRUE
         /\ error' = JsNull
         /\ inflight' = Append(inflight,
                [request |-> ChatRequest(UserMessage.content, serviceFilter),
                 closure |-> Closure])
         /\ last' = Event("submit", NoOutcome, NoClosure)
         /\ UNCHANGED <<serviceFilter, isFullScreen, now>>

\* <form onSubmit={handleSubmit}>
handleSubmit == SubmitBody

Keys == {"Enter", "q"}

\* <textarea onKeyDown={handleKeyDown}>
handleKeyDown ==
    \E key \in Keys, shiftKey \in BOOLEAN :
        IF key = "Enter" /\ ~shiftKey
        THEN SubmitBody
        ELSE UNCHANGED vars

\* <textarea onChange={(e) => setInput(e.target.value)}>
onChangeInput ==
    \E value \in Drafts :
        /\ input' = value
        /\ UNCHANGED <<messages, isLoading, error, serviceFilter, isFullScreen,
                       inflight, now, last>>

\* The example questions the user clicks.
ExampleChoices == {1}

\* <button onClick={() => setInput(question)}>
onExampleClick ==
    \E index \in ExampleChoices :
        /\ input' = exampleQuestions[index]
        /\ UNCHANGED <<messages, isLoading, error, serviceFilter, isFullScreen,
                       inflight, now, last>>

\* A filter change that also reaches the bodies of the pending calls.
setServiceFilterLive ==
    \E id \in ServiceFilter :
        /\ serviceFilter' = id
        /\ inflight' = [k \in 1..Len(inflight) |->
                [inflight[k] EXCEPT !.request.service_filter = id]]
        /\ UNCHANGED <<messages, input, isLoading, error, isFullScreen,
                       now, last>>

\* <ServiceSelector onChange={setServiceFilter}>: onClick={() => onChange(service.id)}
setServiceFilter ==
    \E id \in ServiceFilter :
        /\ serviceFilter' = id
        /\ UNCHANGED <<messages, input, isLoading, error, isFullScreen,
                       inflight, now, last>>

\* A toggle that remounts the component, which loses the pending flag.
toggleFullScreenRemount ==
    /\ isFullScreen' = ~isFullScreen
    /\ isLoading' = FALSE
    /\ UNCHANGED <<messages, input, error, serviceFilter,
                   inflight, now, last>>

\* <button onClick={toggleFullScreen}>
toggleFullScreen ==
    /\ isFullScreen' = ~isFullScreen
    /\ UNCHANGED <<messages, input, isLoading, error, serviceFilter,
                   inflight, now, last>>

RemoveAt(s, i) == SubSeq(s, 1, i - 1) \o SubSeq(s, i + 1, Len(s))

\* catch (err): setError(err instanceof Error ? err.message : 'An error occurred')
CaughtMessage(r) == IF r.isError THEN r.message ELSE "An error occurred"

\* handleSubmit from the await on, with setIsLoading(false) at the end of
\* the try block instead of in finally.
ResumeWithoutFinally(i, o) ==
    LET r == sendChatMessage(o) IN
    /\ inflight' = RemoveAt(inflight, i)
    /\ IF r.settled = "resolved"
       THEN /\ messages' = Append(messages, AssistantMessage(r.value))
            /\ error' = error
            /\ isLoading' = FALSE
       ELSE /\ error' = JsString(CaughtMessage(r))
            /\ messages' = SliceDropLast(messages)
            /\ isLoading' = isLoading
    /\ last' = Event("settle", o, inflight[i].closure)
    /\ UNCHANGED <<input, serviceFilter, isFullScreen, now>>

\* handleSubmit from the await on: try / catch / finally.
Resume(i, o) ==
    LET r == sendChatMessage(o) IN
    /\ inflight' = RemoveAt(inflight, i)
    /\ IF r.settled = "resolved"
       THEN /\ messages' = Append(messages, AssistantMessage(r.value))
            /\ error' = error
       ELSE /\ error' = JsString(CaughtMessage(r))
            /\ messages' = SliceDropLast(messages)
    /\ isLoading' = FALSE
    /\ last' = Event("settle", o, inflight[i].closure)
    /\ UNCHANGED <<input, serviceFilter, isFullScreen, now>>

\* The pending call settles and the suspended handleSubmit resumes.
chatSettles ==
    \E i \in 1..Len(inflight), o \in HttpOutcomes : Resume(i, o)

\* Time passes.
Tick ==
    /\ now < MaxClock
    /\ now' = now + 1
    /\ UNCHANGED <<ui, inflight, last>>

\* The messages area with the loading indicator put in the empty state.
MessagesAreaLoadingInEmptyState ==
    IF Len(messages) = 0
    THEN [examples |-> TRUE, bubbles |-> <<>>, loading |-> isLoading]
    ELSE [examples |-> FALSE, bubbles |-> messages, loading |-> FALSE]

\* The messages area: messages.length === 0 ? empty state with the example
\* questions : the message bubbles and {isLoading && loading indicator}.
MessagesArea ==
    IF Len(messages) = 0
    THEN [examples |-> TRUE, bubbles |-> <<>>, loading |-> FALSE]
    ELSE [examples |-> FALSE, bubbles |-> messages, loading |-> isLoading]

\* {error && <div>{error}</div>}
ErrorBanner == IF Truthy(error) THEN <<error.str>> ELSE <<>>

Next ==
    \/ handleSubmit /\ UNCHANGED health
    \/ handleKeyDown /\ UNCHANGED health
    \/ onChangeInput /\ UNCHANGED health
    \/ onExampleClick /\ UNCHANGED health
    \/ setServiceFilter /\ UNCHANGED health
    \/ toggleFullScreen /\ UNCHANGED health
    \/ chatSettles /\ UNCHANGED health
    \/ Tick /\ UNCHANGED health

Spec == Init /\ [][Next]_vars

\* A caller starts checkHealth, which awaits api.get('/api/health').
callCheckHealth ==
    /\ health.state # "pending"
    /\ health' = HealthCall("pending", health.outcome, health.result)
    /\ UNCHANGED <<ui, inflight, now, last>>

\* api.get settles and checkHealth returns or throws.
healthSettles ==
    \E o \in HealthOutcomes :
        /\ health.state = "pending"
        /\ health' = HealthCall("settled", o, checkHealth(o))
        /\ UNCHANGED <<ui, inflight, now, last>>

HealthNext == callCheckHealth \/ healthSettles

\* The API client's checkHealth on its own, applied to every settlement.
HealthSpec == Init /\ [][HealthNext]_vars

\* Every call of api.post settles: the axios instance gives up after its
\* timeout of 60000 ms, and the event loop then resumes handleSubmit.
LiveSpec ==
    Init /\ [][Next]_vars /\ WF_vars(chatSettles /\ UNCHANGED health)

TypeOK ==
    /\ input \in Seq(Atoms \cup {exampleQuestions[i][1] : i \in 1..4})
    /\ isLoading \in BOOLEAN
    /\ serviceFilter \in ServiceFilter
    /\ isFullScreen \in BOOLEAN
    /\ now \in 0..MaxClock

(***************************************************************************)
(* Properties                                                              *)
(***************************************************************************)
\* The controller is awaiting a response.
Awaiting == isLoading

\* The step is a submit that passes the guard of handleSubmit.
AcceptedSubmitStep == ~Awaiting /\ last'.op = "submit"

\* The step resumes a suspended handleSubmit.
SettleStep == Awaiting /\ last'.op = "settle"

Settled == last.op = "settle"
Succeeded == Settled /\ last.outcome.kind = "ok"
Failed == Settled /\ last.outcome.kind # "ok"

GenericFailure == JsString("Failed to get response")

\* C1: a submit of non-empty input while not awaiting a response moves the
\* controller to awaiting-response and issues exactly one request, with the
\* trimmed draft as question and the filter selected at that moment; no
\* other step (a settlement, successful or not, included) issues a request.
C1_SubmitIssuesOneRequest ==
    [][ /\ AcceptedSubmitStep =>
              /\ Trim(input) # <<>>
              /\ isLoading'
              /\ Len(inflight') = Len(inflight) + 1
              /\ SubSeq(inflight', 1, Len(inflight)) = inflight
              /\ inflight'[Len(inflight')].request =
                     [question |-> Trim(input), service_filter |-> serviceFilter]
        /\ ~AcceptedSubmitStep => Len(inflight') <= Len(inflight)
      ]_vars

C1_Witness ==
    /\ last.op = "submit"
    /\ Awaiting
    /\ Len(inflight) = 1
    /\ inflight[1].closure.input # inflight[1].request.question
    /\ inflight[1].request.service_filter = "langgraph"

\* C2: after a successful response the message list is the list before the
\* submission followed by the user message with the submitted question and
\* an assistant message with the returned answer, sources and processing
\* time, and the controller is not awaiting a response.
C2_SuccessAppendsUserThenAssistant ==
    Succeeded =>
        LET n == Len(last.pre.messages) IN
        /\ Len(messages) = n + 2
        /\ SubSeq(messages, 1, n) = last.pre.messages
        /\ messages[n + 1].role = "user"
        /\ messages[n + 1].content = Trim(last.pre.input)
        /\ messages[n + 2].role = "assistant"
        /\ messages[n + 2].content = last.outcome.data.answer
        /\ messages[n + 2].sources = last.outcome.data.sources
        /\ messages[n + 2].processingTime = last.outcome.data.processing_time
        /\ ~Awaiting

C2_Witness ==
    /\ Succeeded
    /\ Len(messages) = 4
    /\ messages[4].sources # <<>>
    /\ messages[3].content # last.pre.input

\* C3: after a failed request the message list is the list before the
\* submission and an error message is recorded.
C3_FailureRollsBack ==
    Failed =>
        /\ messages = last.pre.messages
        /\ error # JsNull
        /\ Truthy(error)

C3_Witness ==
    /\ Failed
    /\ last.outcome.kind = "axios"
    /\ Len(messages) = 2
    /\ messages = last.pre.messages
    /\ Truthy(error)

\* C4: a submit event (form submit or Enter key) while awaiting a response
\* issues no request and changes neither the message list, the draft, the
\* error, the filter nor the pending flag.
C4_SubmitWhileAwaitingIsNoOp ==
    [][ (Awaiting /\ last' # last /\ last'.op # "settle") =>
            /\ last'.op = "ignored"
            /\ UNCHANGED <<messages, input, isLoading, error, serviceFilter,
                           isFullScreen, inflight>>
      ]_vars

C4_Witness ==
    /\ Awaiting
    /\ last.op = "ignored"
    /\ Trim(input) # <<>>
    /\ Len(inflight) = 1

\* C5: at most one chat request is in flight.
C5_AtMostOneInFlight == Len(inflight) <= 1

C5_Witness ==
    /\ Len(inflight) = 1
    /\ Len(messages) = 3
    /\ last.op = "ignored"
    /\ Trim(input) # <<>>

\* C6: a change of the service filter issues no request and changes neither
\* the message list, the pending flag, the error nor the pending request.
C6_FilterChangeFrame ==
    [][ serviceFilter' # serviceFilter =>
            UNCHANGED <<messages, isLoading, error, inflight>>
      ]_vars

C6_Witness ==
    /\ Awaiting
    /\ Len(inflight) = 1
    /\ inflight[1].request.service_filter = "all"
    /\ serviceFilter = "langsmith"

\* C7: every step leaves the message list unchanged, appends one message,
\* or, when a request fails, removes the last message, which is the user
\* message of that request; an assistant message is never removed.
C7_AppendOnlyExceptRollback ==
    [][ \/ messages' = messages
        \/ /\ Len(messages') = Len(messages) + 1
           /\ SubSeq(messages', 1, Len(messages)) = messages
        \/ /\ SettleStep
           /\ last'.outcome.kind # "ok"
           /\ messages # <<>>
           /\ messages' = SubSeq(messages, 1, Len(messages) - 1)
           /\ messages[Len(messages)].role = "user"
           /\ \E k \in 1..Len(inflight) :
                 /\ inflight' = RemoveAt(inflight, k)
                 /\ inflight[k].request.question = messages[Len(messages)].content
      ]_vars

C7_Witness ==
    /\ Failed
    /\ last.outcome.kind = "error"
    /\ Len(messages) = 2
    /\ messages[2].role = "assistant"
    /\ Len(last.pre.messages) = 2

\* C8, as claimed: a failure puts back the message list, the draft, the
\* pending flag and the filter of the state before the submission, and
\* records the error.
C8_FailureRestoresDraft ==
    [][ (SettleStep /\ last'.outcome.kind # "ok") =>
            /\ messages' = last'.pre.messages
            /\ input' = last'.pre.input
            /\ ~isLoading'
            /\ serviceFilter' = serviceFilter
            /\ error' # JsNull
      ]_vars

\* C8, amended: a failure puts back the message list and the pending flag of
\* the state before the submission, leaves the filter alone and records the
\* error; the draft is not put back, it stays as the failure finds it.
C8_FailureRevertsAllButDraft ==
    [][ (SettleStep /\ last'.outcome.kind # "ok") =>
            /\ messages' = last'.pre.messages
            /\ input' = input
            /\ ~isLoading'
            /\ serviceFilter' = serviceFilter
            /\ isFullScreen' = isFullScreen
            /\ error' # JsNull
      ]_vars

C8_Witness ==
    /\ Failed
    /\ ~Awaiting
    /\ input = <<>>
    /\ last.pre.input # <<>>
    /\ messages = last.pre.messages
    /\ error # JsNull

\* C9, as claimed: when the error body carries a detail the recorded error
\* is that detail, and when there is no response or no detail it is the
\* generic message.
C9_DetailSurfacedExactly ==
    (Failed /\ last.outcome.kind = "axios") =>
        IF last.outcome.hasResponse /\ last.outcome.detail.type = "string"
        THEN error = last.outcome.detail
        ELSE error = GenericFailure

\* C9, amended: for a failure reported by the HTTP client, the recorded
\* error is the detail of the error body when that is a non-empty string,
\* and the generic message when there is no response, no detail or an empty
\* detail; another Error is recorded with its own message and a thrown
\* value that is no Error as 'An error occurred'.
C9_NonEmptyDetailOrGeneric ==
    Failed =>
        CASE last.outcome.kind = "axios" ->
                IF /\ last.outcome.hasResponse
                   /\ last.outcome.detail.type = "string"
                   /\ last.outcome.detail.str # ""
                THEN error = last.outcome.detail
                ELSE error = GenericFailure
          [] last.outcome.kind = "error" ->
                error = JsString(last.outcome.message)
          [] OTHER -> error = JsString("An error occurred")

C9_Witness ==
    /\ Failed
    /\ last.outcome.kind = "axios"
    /\ last.outcome.hasResponse
    /\ last.outcome.detail = JsString("")
    /\ error = GenericFailure

\* C10: while the controller awaits a response, only the settlement of the
\* request ends the wait: every other step leaves the pending flag set and
\* the pending request in place.
C10_NoCancellation ==
    [][ (Awaiting /\ last'.op # "settle") =>
            /\ isLoading'
            /\ inflight' = inflight
      ]_vars

C10_Witness ==
    /\ Awaiting
    /\ Len(inflight) = 1
    /\ ~isFullScreen
    /\ input = exampleQuestions[1]
    /\ serviceFilter # inflight[1].request.service_filter
    /\ last.op = "ignored"

\* C11: given that every HTTP call settles, the controller never awaits a
\* response forever: every awaiting-response state is followed by a state
\* in which the pending flag is cleared, after a success and after a
\* failure alike.
C11_AwaitingEnds ==
    /\ Awaiting ~> ~Awaiting
    /\ [](Settled => ~Awaiting)

C11_Witness ==
    /\ Failed
    /\ last.outcome = HttpAxiosError(FALSE, JsUndefined)
    /\ ~Awaiting
    /\ inflight = <<>>
    /\ Len(messages) = 2

\* C12: in every state the example questions are rendered exactly when the
\* message list is empty and the loading indicator exactly when the
\* controller awaits a response; the list is not empty while a request is
\* in flight.
C12_RenderFollowsState ==
    /\ MessagesArea.examples <=> (messages = <<>>)
    /\ MessagesArea.loading <=> Awaiting
    /\ inflight # <<>> => messages # <<>>

C12_Witness ==
    /\ Awaiting
    /\ inflight # <<>>
    /\ Len(messages) = 1
    /\ MessagesArea.loading
    /\ ~MessagesArea.examples
    /\ MessagesArea.bubbles = messages
    /\ last.op = "submit"

\* C13: a submit of an empty or whitespace-only draft changes nothing and
\* issues nothing, in every state; every user message and every request
\* carries a non-empty question, which for the pending request is the draft
\* of the submission with the surrounding whitespace removed.
C13_BlankSubmitIgnored ==
    /\ [][ (Trim(input) = <<>> /\ last' # last /\ last'.op # "settle") =>
               /\ last'.op = "ignored"
               /\ UNCHANGED <<messages, input, isLoading, error,
                              serviceFilter, isFullScreen, inflight>>
         ]_vars
    /\ [](\A k \in 1..Len(messages) :
              messages[k].role = "user" =>
                  /\ messages[k].content # <<>>
                  /\ messages[k].content = Trim(messages[k].content))
    /\ [](\A k \in 1..Len(inflight) :
              /\ inflight[k].request.question # <<>>
              /\ inflight[k].request.question = Trim(inflight[k].closure.input))

C13_Witness ==
    /\ last.op = "ignored"
    /\ ~Awaiting
    /\ input # <<>>
    /\ Trim(input) = <<>>
    /\ Len(messages) = 2
    /\ error = JsNull

\* C14: checkHealth fails with the generic error 'API is unavailable' on
\* every failure of the HTTP call, whatever the error body holds, and on
\* success returns the status payload of the response unchanged.
C14_HealthGenericFailure ==
    health.state = "settled" =>
        /\ health.outcome.kind = "axios" =>
              /\ health.result.settled = "rejected"
              /\ health.result.isError
              /\ health.result.message = "API is unavailable"
        /\ health.outcome.kind = "ok" =>
              /\ health.result.settled = "resolved"
              /\ health.result.value = health.outcome.data

C14_Witness ==
    /\ health.state = "settled"
    /\ health.outcome.kind = "axios"
    /\ health.outcome.hasResponse
    /\ health.outcome.detail = JsString("Vector store not ready")
    /\ health.result.message = "API is unavailable"

\* C15: the error state does not block the user. A submit of non-empty
\* input while an error is recorded and no response is awaited is accepted
\* with the effect it has in idle: it clears the error, appends the user
\* message, clears the draft, issues the request and moves to awaiting.
\* So no state has both a request in flight and an error recorded, and
\* after a successful response no error is recorded.
C15_ErrorDoesNotBlock ==
    /\ [][ ( /\ Truthy(error)
             /\ ~Awaiting
             /\ Trim(input) # <<>>
             /\ last' # last
             /\ last'.op # "settle" ) =>
               /\ last'.op = "submit"
               /\ error' = JsNull
               /\ isLoading'
               /\ input' = <<>>
               /\ messages' = Append(messages, UserMessage)
               /\ inflight' =
                      <<[request |-> ChatRequest(Trim(input), serviceFilter),
                         closure |-> Closure]>>
               /\ UNCHANGED <<serviceFilter, isFullScreen>>
         ]_vars
    /\ [](inflight # <<>> => error = JsNull)
    /\ [](Awaiting => ErrorBanner = <<>>)
    /\ [](Succeeded => error = JsNull)

C15_Witness ==
    /\ last.op = "submit"
    /\ last.inError
    /\ error = JsNull
    /\ Awaiting
    /\ Len(inflight) = 1
    /\ Len(messages) = 3

\* C16: the message list alternates user, assistant, user, ... starting
\* with a user message; while no request is in flight its length is even
\* (it is empty or ends with an assistant message); while a request is in
\* flight its length is odd and its last entry is the user message of that
\* request.
C16_Alternation ==
    /\ \A k \in 1..Len(messages) :
           messages[k].role = IF k % 2 = 1 THEN "user" ELSE "assistant"
    /\ inflight = <<>> => Len(messages) % 2 = 0
    /\ inflight # <<>> =>
           /\ Len(messages) % 2 = 1
           /\ messages[Len(messages)].role = "user"
           /\ messages[Len(messages)].content =
                  inflight[Len(inflight)].request.question

C16_Witness ==
    /\ Len(messages) = 3
    /\ messages[2].role = "assistant"
    /\ inflight # <<>>
    /\ messages[3].content = inflight[1].request.question
    /\ last.op = "submit"
    /\ last.inError

\* C17: in every state the identifiers of the messages in the list are
\* pairwise distinct, for any timing of submissions and responses.
C17_IdsDistinct ==
    \A i, j \in 1..Len(messages) :
        i # j => messages[i].id # messages[j].id

====
